---- MODULE Spec2Model ----
(***************************************************************************)
(* seqrenamer: encode (rename / deduplicate identifiers, write an id map)  *)
(* and decode (substitute the identifiers back from the id map).           *)
(*                                                                         *)
(* Text is modelled as sequences of one-character strings; a file is the   *)
(* sequence of its lines as Python's file iteration yields them, each      *)
(* line carrying its trailing newline character.                           *)
(***************************************************************************)
EXTENDS Integers, Sequences, FiniteSets, TLC

(***************************************************************************)
(* Characters and the python str methods the code uses.                    *)
(***************************************************************************)
NL == "NL"
CR == "CR"
TAB == "TAB"
SP == " "
GT == ">"
DOT == "."
COMMA == ","

\* The value None.  It is a one-element sequence holding a token that is not
\* a character, so that it compares with every string of the model.
None == <<"None">>

Whitespace == {SP, TAB, NL, CR}

\* str.startswith(prefix) for a one-character prefix
StartsWith(s, c) == Len(s) > 0 /\ s[1] = c

RECURSIVE LStrip(_)
\* str.lstrip()
LStrip(s) ==
    IF Len(s) > 0 /\ s[1] \in Whitespace THEN LStrip(Tail(s)) ELSE s

RECURSIVE RStripChars(_, _)
\* str.rstrip(chars)
RStripChars(s, chars) ==
    IF Len(s) > 0 /\ s[Len(s)] \in chars
    THEN RStripChars(SubSeq(s, 1, Len(s) - 1), chars)
    ELSE s

\* str.strip()
Strip(s) == RStripChars(LStrip(s), Whitespace)

RECURSIVE SplitFrom(_, _, _)
\* str.split(sep): the fields of s, the field being read is cur
SplitFrom(s, sep, cur) ==
    IF Len(s) = 0 THEN <<cur>>
    ELSE IF s[1] = sep THEN <<cur>> \o SplitFrom(Tail(s), sep, <<>>)
    ELSE SplitFrom(Tail(s), sep, Append(cur, s[1]))

Split(s, sep) == SplitFrom(s, sep, <<>>)

RECURSIVE Join(_, _)
\* sep.join(fields)
Join(fields, sep) ==
    IF Len(fields) = 0 THEN <<>>
    ELSE IF Len(fields) = 1 THEN fields[1]
    ELSE fields[1] \o <<sep>> \o Join(Tail(fields), sep)

RECURSIVE Concat(_)
\* "".join(parts)
Concat(parts) ==
    IF Len(parts) = 0 THEN <<>> ELSE parts[1] \o Concat(Tail(parts))

\* the elements of a sequence
Range(s) == {s[k] : k \in 1..Len(s)}

\* dict lookup with a default
Get(d, k, default) == IF k \in DOMAIN d THEN d[k] ELSE default

\* dict assignment d[k] = v
Put(d, k, v) == [x \in (DOMAIN d) \cup {k} |-> IF x = k THEN v ELSE d[x]]

\* the empty dict
EmptyDict == [x \in {} |-> <<>>]

(***************************************************************************)
(* seq.py: the FASTA record, its serialisation and the parser.             *)
(***************************************************************************)
line_length == 60

\* A Seq object
MkSeq(id, desc, seq) == [id |-> id, desc |-> desc, seq |-> seq]

RECURSIVE Wrap(_)
\* the body lines of Seq.__str__: seq[i:i+line_length] for i in range(...)
Wrap(seq) ==
    IF Len(seq) = 0 THEN <<>>
    ELSE IF Len(seq) <= line_length THEN <<seq>>
    ELSE <<SubSeq(seq, 1, line_length)>>
         \o Wrap(SubSeq(seq, line_length + 1, Len(seq)))

\* Seq.__str__, as the lines a reader of the written text gets
SeqStr(r) ==
    LET head == IF r.desc = None THEN <<GT>> \o r.id
                ELSE <<GT>> \o r.id \o <<SP>> \o r.desc
        lines == <<head>> \o Wrap(r.seq)
    IN [k \in 1..Len(lines) |-> lines[k] \o <<NL>>]

RECURSIVE IndexOf(_, _, _)
\* position of the first c in s at or after k, 0 when there is none
IndexOf(s, c, k) ==
    IF k > Len(s) THEN 0 ELSE IF s[k] = c THEN k ELSE IndexOf(s, c, k + 1)

\* Seq._split_id_line: ok is FALSE where the code raises ValueError
SplitIdLine(line) ==
    IF ~StartsWith(line, GT) THEN [ok |-> FALSE, id |-> <<>>, desc |-> None]
    ELSE LET rest == Tail(line)
             sp == IndexOf(rest, SP, 1)
         IN IF sp = 0 THEN [ok |-> TRUE, id |-> rest, desc |-> None]
            ELSE [ok |-> TRUE, id |-> SubSeq(rest, 1, sp - 1),
                  desc |-> SubSeq(rest, sp + 1, Len(rest))]

\* Seq.read on the lines of one block: a record, or the error it ends in.
\* next() on an empty block raises StopIteration, which leaves the
\* generator Seq.parse as RuntimeError.
SeqRead(block) ==
    IF Len(block) = 0 THEN [err |-> "RuntimeError", rec |-> MkSeq(<<>>, None, <<>>)]
    ELSE LET h == SplitIdLine(Strip(block[1]))
             body == Concat([k \in 1..(Len(block) - 1) |-> Strip(block[k + 1])])
         IN IF ~h.ok THEN [err |-> "ValueError", rec |-> MkSeq(<<>>, None, <<>>)]
            ELSE [err |-> "none", rec |-> MkSeq(h.id, h.desc, body)]

fasta_comment == ";"

RECURSIVE ParseFrom(_, _, _, _)
\* The loop of Seq.parse from line k on: the blocks it hands to Seq.read, in
\* order.  A '>' line closes the current block (unless it is the first) and
\* opens a new one; a comment line is skipped; any other line is appended.
ParseFrom(handle, k, first, current_record) ==
    IF k > Len(handle) THEN <<current_record>>
    ELSE LET line == handle[k] IN
         IF StartsWith(line, GT)
         THEN (IF first THEN <<>> ELSE <<current_record>>)
              \o ParseFrom(handle, k + 1, FALSE, <<line>>)
         ELSE IF StartsWith(line, fasta_comment)
         THEN ParseFrom(handle, k + 1, first, current_record)
         ELSE ParseFrom(handle, k + 1, first, Append(current_record, line))

\* Seq.parse: what the generator yields, one Seq.read result per block
SeqParse(handle) ==
    LET blocks == ParseFrom(handle, 1, TRUE, <<>>)
    IN [k \in 1..Len(blocks) |-> SeqRead(blocks[k])]

RECURSIVE ParseMany(_)
\* Seq.parse_many: the results of every handle in argument order
ParseMany(handles) ==
    IF Len(handles) = 0 THEN <<>>
    ELSE SeqParse(handles[1]) \o ParseMany(Tail(handles))

\* Seq.checksum: the digest of the sequence bytes, taken as collision free
Checksum(seq) == <<"#">> \o seq

\* bytes.upper() on the alphabet of the model
UpperChar(c) == IF c = "a" THEN "A" ELSE IF c = "c" THEN "C" ELSE c

\* Seq.upper applied by map_seq
Upper(seq) == [k \in 1..Len(seq) |-> UpperChar(seq[k])]

(***************************************************************************)
(* id_generator.IdConverter: next() returns prefix + the counter written   *)
(* in a fixed radix, left-padded to the configured length.                 *)
(***************************************************************************)
IdPrefix == <<"S", "R">>
IdLength == 5
DigitChars == <<"0", "1", "2", "3", "4", "5", "6", "7", "8", "9">>

RECURSIVE Digits(_)
Digits(n) ==
    IF n < 10 THEN <<DigitChars[n + 1]>>
    ELSE Append(Digits(n \div 10), DigitChars[(n % 10) + 1])

RECURSIVE PadLeft(_, _)
PadLeft(s, n) == IF Len(s) >= n THEN s ELSE PadLeft(<<"0">> \o s, n)

\* the id returned by the call that finds the counter at n
NextId(n) == IdPrefix \o PadLeft(Digits(n), IdLength)

(***************************************************************************)
(* Bounds and the inputs of a run.                                         *)
(***************************************************************************)
MaxRecs == 3
MaxRows == 3

FORMATS == {"fasta", "tsv", "csv", "gff3"}

SeqIds == {<<"x">>, <<"y">>, <<"z">>}
SeqBodies == {<<"A">>, <<"a", "*">>}

\* the input records: every id with every body, with and without a description
InRecords ==
    {MkSeq(id, IF (id = <<"x">>) = (s = <<"A">>) THEN None ELSE <<"d">>, s) :
        id \in SeqIds, s \in SeqBodies}

\* the sequences over S of length at most n
SeqUpTo(S, n) == UNION {[1..k -> S] : k \in 0..n}

RECURSIVE SeqsStr(_)
\* Seqs.__str__: the text of a list of records
SeqsStr(recs) ==
    IF Len(recs) = 0 THEN <<>> ELSE SeqStr(recs[1]) \o SeqsStr(Tail(recs))

\* the characters --strip removes from the end of a sequence
StripChars == {"*"}

(***************************************************************************)
(* State.                                                                  *)
(***************************************************************************)
VARIABLES
    format,       \* args.format
    column,       \* the value check_column returned
    header,       \* args.header
    deduplicate,  \* args.deduplicate
    upper,        \* args.upper
    strip,        \* args.strip: TRUE when a strip set was given
    drop_desc,    \* args.drop_desc
    infiles,      \* the input files of encode, each a sequence of lines
    pc,           \* the function the run is in
    err,          \* the exception that ended the run, "none" otherwise
    errmsg,       \* the text the exception carries
    pos,          \* items the running loop has pulled from its input stream
    seen,         \* the seen dict of the running transform
    id_conv,      \* the counter of the IdConverter
    id_map,       \* the id_map buffer of the running transform
    chunk,        \* the chunk list of the running loop
    i,            \* the enumerate index of the running loop
    outfile,      \* the lines written to encode's outfile
    mapfile,      \* the lines written to the mapping file
    map_,         \* the table parse_map_file returned
    decoded,      \* what decode wrote to its outfile
    hist_map,     \* every id_map entry appended so far, in order
    hist_out,     \* every item the transform yielded so far, in order
    hist_calls,   \* the argument of every id_conv call so far, in order
    hist_dec      \* for every item decode processed, the items it put out

config == <<format, column, header, deduplicate, upper, strip, drop_desc, infiles>>
encstate == <<seen, id_conv, id_map, outfile, mapfile>>
hist == <<hist_map, hist_out, hist_calls>>
decstate == <<map_, decoded, hist_dec>>
vars == <<format, column, header, deduplicate, upper, strip, drop_desc,
          infiles, pc, err, errmsg, pos, seen, id_conv, id_map, chunk, i,
          outfile, mapfile, map_, decoded, hist_map, hist_out, hist_calls,
          hist_dec>>

\* The flush interval of the encode and decode loops.  The code has 10000
\* (encode.py:308 and 351, decode.py:137 and 236); the model runs with a
\* small interval, so that runs of a few records cross it.
FlushInterval == 2

(***************************************************************************)
(* seq.py: the rename transforms, one input record at a time.              *)
(* Each returns the exception raised ("none" when there is none), the      *)
(* seen dict and the generator counter afterwards, the id_map entry        *)
(* appended, the arguments id_conv was called with, and the record         *)
(* yielded when yields is TRUE.                                            *)
(***************************************************************************)
Outcome(e, s, c, entry, calls, yields, rec) ==
    [err |-> e, msg |-> <<>>, seen |-> s, id_conv |-> c, entry |-> entry,
     calls |-> calls, yields |-> yields, rec |-> rec]

\* SeqReId._filter_id: a repeated id reads self.seen, which does not exist
SeqReId_filter_id(record, s, c) ==
    IF record.id \in DOMAIN s
    THEN Outcome("AttributeError", s, c, <<>>, <<>>, FALSE, record)
    ELSE LET new_id == NextId(c) IN
         Outcome("none", Put(s, record.id, new_id), c + 1,
                 <<<<new_id, record.id, record.desc>>>>, <<record.id>>,
                 TRUE, MkSeq(new_id, record.desc, record.seq))

\* SeqReId._filter_desc
SeqReId_filter_desc(record, s, c) ==
    IF record.desc \in DOMAIN s
    THEN Outcome("none", s, c,
                 <<<<s[record.desc], record.desc, record.id>>>>, <<>>,
                 TRUE, MkSeq(record.id, s[record.desc], record.seq))
    ELSE LET new_desc == NextId(c) IN
         Outcome("none", Put(s, record.desc, new_desc), c + 1,
                 <<<<new_desc, record.desc, record.id>>>>, <<record.desc>>,
                 TRUE, MkSeq(record.id, new_desc, record.seq))

\* SeqDeduplicated._filter_id with the duplicate branch yielding the record
\* under a fresh id, as the first-occurrence branch does
SeqDeduplicated_filter_id_nodrop(record, s, c) ==
    LET checksum == Checksum(record.seq)
        new_id == NextId(c)
    IN Outcome("none", Put(s, checksum, new_id), c + 1,
               <<<<new_id, record.id, checksum, record.desc>>>>,
               <<record.id>>,
               TRUE, MkSeq(new_id, record.desc, record.seq))

\* SeqDeduplicated._filter_id
SeqDeduplicated_filter_id(record, s, c) ==
    LET checksum == Checksum(record.seq) IN
    IF checksum \in DOMAIN s
    THEN Outcome("none", s, c,
                 <<<<s[checksum], record.id, checksum, record.desc>>>>, <<>>,
                 FALSE, record)
    ELSE LET new_id == NextId(c) IN
         Outcome("none", Put(s, checksum, new_id), c + 1,
                 <<<<new_id, record.id, checksum, record.desc>>>>,
                 <<record.id>>,
                 TRUE, MkSeq(new_id, record.desc, record.seq))

\* SeqDeduplicated._filter_desc
SeqDeduplicated_filter_desc(record, s, c) ==
    LET checksum == Checksum(record.seq) IN
    IF checksum \in DOMAIN s
    THEN Outcome("none", s, c,
                 <<<<s[checksum], record.desc, checksum, record.id>>>>, <<>>,
                 FALSE, record)
    ELSE LET new_desc == NextId(c) IN
         Outcome("none", Put(s, checksum, new_desc), c + 1,
                 <<<<new_desc, record.desc, checksum, record.id>>>>,
                 <<record.desc>>,
                 TRUE, MkSeq(record.id, record.desc, record.seq))

\* SeqReId.__init__ and SeqDeduplicated.__init__: the filter chosen
SeqTransform(record, s, c) ==
    IF deduplicate
    THEN (IF column = "desc" THEN SeqDeduplicated_filter_desc(record, s, c)
          ELSE SeqDeduplicated_filter_id(record, s, c))
    ELSE (IF column = "desc" THEN SeqReId_filter_desc(record, s, c)
          ELSE SeqReId_filter_id(record, s, c))

\* one line of SeqReId.flush_ids / SeqDeduplicated.flush_ids: the last
\* field is old_desc, written as "." when it is None
SeqFlushLine(entry) ==
    LET n == Len(entry)
        fields == [k \in 1..n |->
                     IF k = n /\ entry[k] = None THEN <<DOT>> ELSE entry[k]]
    IN Join(fields, TAB) \o <<NL>>

\* flush_ids writing the line of the newest buffered entry only
SeqFlushIds_last(buffer) ==
    IF Len(buffer) = 0 THEN <<>> ELSE <<SeqFlushLine(buffer[Len(buffer)])>>

\* flush_ids: the lines written for the buffered entries
SeqFlushIds(buffer) == [k \in 1..Len(buffer) |-> SeqFlushLine(buffer[k])]

\* the map_seq stages of encode_seqs: rstrip(strip), then upper()
Preprocess(record) ==
    LET s1 == IF strip THEN RStripChars(record.seq, StripChars) ELSE record.seq
        s2 == IF upper THEN Upper(s1) ELSE s1
    IN MkSeq(record.id, record.desc, s2)

(***************************************************************************)
(* xsv.py and join_files: delimited rows.  csv.reader and csv.writer are   *)
(* taken without quoting: no field of the model holds a separator, a quote *)
(* or a line break.                                                        *)
(***************************************************************************)
xsv_comment == "#"

\* the separator encode and decode pass for the format
SepOf(fmt) == IF fmt = "csv" THEN COMMA ELSE TAB

RECURSIVE JoinFilesFrom(_, _, _)
\* join_files: the lines it yields, each stripped of its line end.  With
\* the header flag the first line of every file but the first is dropped;
\* next() on an empty file ends the generator in RuntimeError.
JoinFilesFrom(files, hdr, first) ==
    IF Len(files) = 0 THEN <<>>
    ELSE LET f == files[1]
             drop == hdr /\ ~first
         IN IF drop /\ Len(f) = 0
            THEN <<[err |-> "RuntimeError", line |-> <<>>]>>
            ELSE LET kept == IF drop THEN Tail(f) ELSE f
                 IN [k \in 1..Len(kept) |->
                        [err |-> "none",
                         line |-> RStripChars(kept[k], {CR, NL})]]
                    \o JoinFilesFrom(Tail(files), hdr, FALSE)

join_files(files, hdr) == JoinFilesFrom(files, hdr, TRUE)

\* csv.reader on one line
CsvRead(line, sep) == IF Len(line) = 0 THEN <<>> ELSE Split(line, sep)

\* csv.writer.writerow: the line written
CsvWrite(row, sep) == Join(row, sep) \o <<CR, NL>>

\* Xsv.__iter__ over Xsv._filter_comments over join_files: the rows (or the
\* error) the reader yields, in order
XsvRows(files, hdr, sep) ==
    LET items == join_files(files, hdr)
        keep == SelectSeq(items,
                   LAMBDA it : it.err # "none" \/ ~StartsWith(it.line, xsv_comment))
    IN [k \in 1..Len(keep) |->
          [err |-> keep[k].err, row |-> CsvRead(keep[k].line, sep)]]

\* Xsv.replace_ids without the assignment seen[old_id] = new_id
Xsv_replace_ids_noseen(row, hdr, sep, s, c) ==
    IF hdr THEN Outcome("none", s, c, <<>>, <<>>, TRUE, row)
    ELSE IF column + 1 > Len(row)
    THEN [Outcome("XsvColumnNumberError", s, c, <<>>, <<>>, FALSE, row)
            EXCEPT !.msg = Join(row, sep)]
    ELSE LET old_id == row[column + 1]
             new_id == NextId(c)
         IN Outcome("none", s, c + 1, <<<<new_id, old_id>>>>, <<old_id>>, TRUE,
                    [row EXCEPT ![column + 1] = new_id])

\* Xsv.replace_ids with the row that lacks the column passed on unchanged
\* instead of raising
Xsv_replace_ids_nocheck(row, hdr, sep, s, c) ==
    IF hdr \/ column + 1 > Len(row)
    THEN Outcome("none", s, c, <<>>, <<>>, TRUE, row)
    ELSE LET old_id == row[column + 1] IN
         IF old_id \in DOMAIN s
         THEN Outcome("none", s, c, <<<<s[old_id], old_id>>>>, <<>>, TRUE,
                      [row EXCEPT ![column + 1] = s[old_id]])
         ELSE LET new_id == NextId(c) IN
              Outcome("none", Put(s, old_id, new_id), c + 1,
                      <<<<new_id, old_id>>>>, <<old_id>>, TRUE,
                      [row EXCEPT ![column + 1] = new_id])

\* the body of the loop of Xsv.replace_ids for one row; hdr is the value of
\* the local header flag when the row is read
Xsv_replace_ids(row, hdr, sep, s, c) ==
    IF hdr THEN Outcome("none", s, c, <<>>, <<>>, TRUE, row)
    ELSE IF column + 1 > Len(row)
    THEN [Outcome("XsvColumnNumberError", s, c, <<>>, <<>>, FALSE, row)
            EXCEPT !.msg = Join(row, sep)]
    ELSE LET old_id == row[column + 1] IN
         IF old_id \in DOMAIN s
         THEN Outcome("none", s, c, <<<<s[old_id], old_id>>>>, <<>>, TRUE,
                      [row EXCEPT ![column + 1] = s[old_id]])
         ELSE LET new_id == NextId(c) IN
              Outcome("none", Put(s, old_id, new_id), c + 1,
                      <<<<new_id, old_id>>>>, <<old_id>>, TRUE,
                      [row EXCEPT ![column + 1] = new_id])

\* Xsv.flush_ids: the lines written for the buffered entries
XsvFlushIds(buffer) ==
    [k \in 1..Len(buffer) |-> buffer[k][1] \o <<TAB>> \o buffer[k][2] \o <<NL>>]

(***************************************************************************)
(* decode.py: the mapping table.                                           *)
(***************************************************************************)
RECURSIVE ParseMapFrom(_, _, _)
\* parse_map_file from line k on, m being the table built so far
ParseMapFrom(infile, k, m) ==
    IF k > Len(infile) THEN [err |-> "none", map |-> m, at |-> 0, line |-> <<>>]
    ELSE LET line == infile[k]
             sline == Split(Strip(line), TAB)
         IN IF Len(sline) < 2
            THEN [err |-> "MapFileParseError", map |-> EmptyDict,
                  at |-> k, line |-> line]
            ELSE ParseMapFrom(infile, k + 1,
                    Put(m, sline[1], Append(Get(m, sline[1], <<>>), sline[2])))

parse_map_file(infile) == ParseMapFrom(infile, 1, EmptyDict)

\* get_from_map: map is a defaultdict(list), so a key that is absent is
\* inserted with the empty list and returned; KeyError is never raised
get_from_map(m, key) ==
    [err |-> "none", val |-> Get(m, key, <<>>),
     map |-> IF key \in DOMAIN m THEN m ELSE Put(m, key, <<>>)]

\* get_from_map_single: element 0 of the candidates; IndexError, raised
\* when there is no candidate, becomes MapFileKeyError
get_from_map_single(m, key) ==
    LET g == get_from_map(m, key) IN
    IF Len(g.val) = 0
    THEN [err |-> "MapFileKeyError", val |-> <<>>, map |-> g.map]
    ELSE [err |-> "none", val |-> g.val[1], map |-> g.map]

(***************************************************************************)
(* Inputs.                                                                 *)
(***************************************************************************)
XsvFields == {<<>>, <<"a">>, <<"b">>}
XsvSecond == {<<>>, <<"a">>}
InRows == {<<>>} \cup {<<f>> : f \in {<<"a">>, <<"b">>}}
          \cup {<<f, g>> : f \in XsvFields, g \in XsvSecond}

\* the lines of a delimited input: rows, and one comment line
InLines(sep) == {Join(row, sep) \o <<NL>> : row \in InRows}
                \cup {<<xsv_comment, "a", NL>>}

\* the state every run starts from, but for its configuration and input
Fresh ==
    /\ err = "none" /\ errmsg = <<>>
    /\ pos = 0 /\ seen = EmptyDict /\ id_conv = 0 /\ id_map = <<>>
    /\ chunk = <<>> /\ i = 0
    /\ map_ = EmptyDict /\ decoded = <<>>
    /\ hist_map = <<>> /\ hist_out = <<>> /\ hist_calls = <<>>
    /\ hist_dec = <<>>

InitFasta ==
    /\ format = "fasta"
    /\ column \in {"id", "description"}
    /\ header = FALSE
    /\ deduplicate \in BOOLEAN /\ upper \in BOOLEAN
    /\ strip \in BOOLEAN /\ drop_desc \in BOOLEAN
    /\ \E recs \in SeqUpTo(InRecords, MaxRecs) : infiles = <<SeqsStr(recs)>>

InitXsv ==
    /\ format \in {"csv", "tsv"}
    /\ column \in {0, 1}
    /\ header \in BOOLEAN
    /\ deduplicate = FALSE /\ upper = FALSE
    /\ strip = FALSE /\ drop_desc = FALSE
    /\ \E f \in SeqUpTo(InLines(SepOf(format)), MaxRows) : infiles = <<f>>

InitGff ==
    /\ format = "gff3"
    /\ column \in {"id", "name", "seqid"}
    /\ header = FALSE
    /\ deduplicate = FALSE /\ upper = FALSE
    /\ strip = FALSE /\ drop_desc = FALSE
    /\ infiles = <<<<>>>>

\* an encode run followed by a decode run on what it wrote
Init ==
    /\ pc = "encode"
    /\ outfile = <<>> /\ mapfile = <<>>
    /\ Fresh
    /\ (InitFasta \/ InitXsv \/ InitGff)

\* the run ends in the exception e
Raise(e, msg) ==
    /\ pc' = "error"
    /\ err' = e
    /\ errmsg' = msg

(***************************************************************************)
(* encode.py                                                               *)
(***************************************************************************)
\* encode(args): the dispatch on the format
Encode ==
    /\ pc = "encode"
    /\ IF format = "fasta"
       THEN pc' = "encode_seqs" /\ UNCHANGED <<err, errmsg>>
       ELSE IF format \in {"csv", "tsv"}
       THEN pc' = "encode_xsv" /\ UNCHANGED <<err, errmsg>>
       ELSE Raise("ValueError", <<>>)
    /\ UNCHANGED <<config, pos, chunk, i, encstate, decstate, hist>>

\* encode_seqs: one iteration of its loop over the transformed records, up
\* to the next input record; after the last one, the closing write and flush
EncodeSeqs ==
    /\ pc = "encode_seqs"
    /\ LET results == ParseMany(infiles) IN
       IF pos = Len(results)
       THEN /\ outfile' = outfile \o chunk
            /\ mapfile' = mapfile \o SeqFlushIds(id_map)
            /\ id_map' = <<>>
            /\ chunk' = <<>>
            /\ pc' = "decode"
            /\ UNCHANGED <<pos, i, seen, id_conv, err, errmsg, hist>>
       ELSE IF results[pos + 1].err # "none"
       THEN /\ Raise(results[pos + 1].err, <<>>)
            /\ UNCHANGED <<pos, i, chunk, encstate, hist>>
       ELSE LET o == SeqTransform(Preprocess(results[pos + 1].rec), seen, id_conv)
                buf == id_map \o o.entry
                seq == IF drop_desc THEN [o.rec EXCEPT !.desc = None] ELSE o.rec
            IN IF o.err # "none"
               THEN /\ Raise(o.err, <<>>)
                    /\ UNCHANGED <<pos, i, chunk, encstate, hist>>
               ELSE /\ pos' = pos + 1
                    /\ seen' = o.seen
                    /\ id_conv' = o.id_conv
                    /\ hist_map' = hist_map \o o.entry
                    /\ hist_calls' = hist_calls \o o.calls
                    /\ UNCHANGED <<pc, err, errmsg>>
                    /\ IF ~o.yields
                       THEN /\ id_map' = buf
                            /\ UNCHANGED <<i, chunk, outfile, mapfile, hist_out>>
                       ELSE /\ i' = i + 1
                            /\ hist_out' = Append(hist_out, o.rec)
                            /\ IF (i + 1) % FlushInterval # 0
                               THEN /\ outfile' = outfile \o chunk \o SeqStr(seq)
                                    /\ chunk' = <<>>
                                    /\ mapfile' = mapfile \o SeqFlushIds(buf)
                                    /\ id_map' = <<>>
                               ELSE /\ chunk' = chunk \o SeqStr(seq)
                                    /\ id_map' = buf
                                    /\ UNCHANGED <<outfile, mapfile>>
    /\ UNCHANGED <<config, decstate>>

\* encode_xsv: one iteration of its loop over Xsv.replace_ids; after the
\* last row, the closing flush
EncodeXsv ==
    /\ pc = "encode_xsv"
    /\ LET sep == SepOf(format)
           rows == XsvRows(infiles, header, sep)
       IN
       IF pos = Len(rows)
       THEN /\ mapfile' = mapfile \o XsvFlushIds(id_map)
            /\ id_map' = <<>>
            /\ pc' = "decode"
            /\ UNCHANGED <<pos, i, seen, id_conv, outfile, err, errmsg, hist>>
       ELSE IF rows[pos + 1].err # "none"
       THEN /\ Raise(rows[pos + 1].err, <<>>)
            /\ UNCHANGED <<pos, i, encstate, hist>>
       ELSE LET o == Xsv_replace_ids(rows[pos + 1].row, header /\ pos = 0,
                                     sep, seen, id_conv)
                buf == id_map \o o.entry
            IN IF o.err # "none"
               THEN /\ Raise(o.err, o.msg)
                    /\ UNCHANGED <<pos, i, encstate, hist>>
               ELSE /\ pos' = pos + 1
                    /\ i' = i + 1
                    /\ seen' = o.seen
                    /\ id_conv' = o.id_conv
                    /\ hist_map' = hist_map \o o.entry
                    /\ hist_calls' = hist_calls \o o.calls
                    /\ hist_out' = Append(hist_out, o.rec)
                    /\ outfile' = Append(outfile, CsvWrite(o.rec, sep))
                    /\ UNCHANGED <<pc, err, errmsg>>
                    /\ IF (i + 1) % FlushInterval # 0
                       THEN /\ mapfile' = mapfile \o XsvFlushIds(buf)
                            /\ id_map' = <<>>
                       ELSE /\ id_map' = buf
                            /\ UNCHANGED mapfile
    /\ UNCHANGED <<config, chunk, decstate>>

(***************************************************************************)
(* decode.py.  The decode run reads what the encode run wrote: its infiles *)
(* is <<outfile>> and its map file is mapfile.                             *)
(***************************************************************************)
\* decode(args): parse_map_file, then the dispatch on the format
Decode ==
    /\ pc = "decode"
    /\ LET m == parse_map_file(mapfile) IN
       IF m.err # "none"
       THEN /\ Raise(m.err, <<m.at, m.line>>)
            /\ UNCHANGED map_
       ELSE /\ map_' = m.map
            /\ pc' = IF format = "fasta" THEN "decode_seqs"
                     ELSE IF format \in {"csv", "tsv"} THEN "decode_xsv"
                     ELSE "decode_gff"
            /\ UNCHANGED <<err, errmsg>>
    /\ pos' = 0 /\ i' = 0 /\ chunk' = <<>>
    /\ UNCHANGED <<config, encstate, decoded, hist, hist_dec>>

\* decode_seqs taking the first candidate only
FanOut_first(seq, olds, onDesc) ==
    IF Len(olds) = 0 THEN <<>>
    ELSE <<IF onDesc THEN MkSeq(seq.id, olds[1], seq.seq)
           ELSE MkSeq(olds[1], seq.desc, seq.seq)>>

RECURSIVE FanOut(_, _, _)
\* the inner loops of decode_seqs: str(Seq(...)) for every candidate
FanOut(seq, olds, onDesc) ==
    IF Len(olds) = 0 THEN <<>>
    ELSE <<IF onDesc THEN MkSeq(seq.id, olds[1], seq.seq)
           ELSE MkSeq(olds[1], seq.desc, seq.seq)>>
         \o FanOut(seq, Tail(olds), onDesc)

\* decode_seqs: one iteration of its loop; after the last record, the
\* closing write
DecodeSeqs ==
    /\ pc = "decode_seqs"
    /\ LET results == ParseMany(<<outfile>>) IN
       IF pos = Len(results)
       THEN /\ decoded' = decoded \o chunk
            /\ chunk' = <<>>
            /\ pc' = "done"
            /\ UNCHANGED <<pos, i, map_, hist_dec, err, errmsg>>
       ELSE IF results[pos + 1].err # "none"
       THEN /\ Raise(results[pos + 1].err, <<>>)
            /\ UNCHANGED <<pos, i, chunk, decstate>>
       ELSE LET seq == results[pos + 1].rec
                onDesc == column = "description"
                g == get_from_map(map_, IF onDesc THEN seq.desc ELSE seq.id)
                outs == FanOut(seq, g.val, onDesc)
                text == chunk \o SeqsStr(outs)
            IN /\ pos' = pos + 1
               /\ i' = i + 1
               /\ map_' = g.map
               /\ hist_dec' = Append(hist_dec, outs)
               /\ IF (i + 1) % FlushInterval = 0
                  THEN decoded' = decoded \o text /\ chunk' = <<>>
                  ELSE chunk' = text /\ UNCHANGED decoded
               /\ UNCHANGED <<pc, err, errmsg>>
    /\ UNCHANGED <<config, encstate, hist>>

\* decode_xsv: one iteration of its loop
DecodeXsv ==
    /\ pc = "decode_xsv"
    /\ LET sep == SepOf(format)
           rows == XsvRows(<<outfile>>, header, sep)
       IN
       IF pos = Len(rows)
       THEN /\ pc' = "done"
            /\ UNCHANGED <<pos, decstate, err, errmsg>>
       ELSE IF rows[pos + 1].err # "none"
       THEN /\ Raise(rows[pos + 1].err, <<>>)
            /\ UNCHANGED <<pos, decstate>>
       ELSE LET row == rows[pos + 1].row IN
            IF header /\ pos = 0
            THEN /\ decoded' = Append(decoded, CsvWrite(row, sep))
                 /\ hist_dec' = Append(hist_dec, <<row>>)
                 /\ pos' = pos + 1
                 /\ UNCHANGED <<pc, err, errmsg, map_>>
            ELSE IF column + 1 > Len(row)
            THEN /\ Raise("XsvColumnNumberError", Join(row, sep))
                 /\ UNCHANGED <<pos, decstate>>
            ELSE LET g == get_from_map_single(map_, row[column + 1])
                     new == [row EXCEPT ![column + 1] = g.val]
                 IN IF g.err # "none"
                    THEN /\ Raise(g.err, row[column + 1])
                         /\ map_' = g.map
                         /\ UNCHANGED <<pos, decoded, hist_dec>>
                    ELSE /\ decoded' = Append(decoded, CsvWrite(new, sep))
                         /\ hist_dec' = Append(hist_dec, <<new>>)
                         /\ map_' = g.map
                         /\ pos' = pos + 1
                         /\ UNCHANGED <<pc, err, errmsg>>
    /\ UNCHANGED <<config, encstate, hist, chunk, i>>

Next == Encode \/ EncodeSeqs \/ EncodeXsv \/ Decode \/ DecodeSeqs \/ DecodeXsv

Spec == Init /\ [][Next]_vars

(***************************************************************************)
(* A decode run on an input and a mapping file of any content.             *)
(***************************************************************************)
MaxMapLines == 2
MaxDecItems == 2

DecKeys == {NextId(0), NextId(1)}
DecOlds == {<<"x">>, <<"y">>}

\* well-formed lines of either map layout, and a line without a tab
MapLines == {k \o <<TAB>> \o v \o <<NL>> : k \in DecKeys, v \in DecOlds}
            \cup {NextId(0) \o <<TAB>> \o <<"x">> \o <<TAB, DOT, NL>>}
            \cup {NextId(0) \o <<NL>>}

DecRecords == {MkSeq(id, d, <<"A">>) : id \in DecKeys, d \in {None, NextId(0)}}
DecRows == {<<>>} \cup {<<k>> : k \in DecKeys}
           \cup {<<k, NextId(0)>> : k \in DecKeys}

InitDecode ==
    /\ pc = "decode"
    /\ Fresh
    /\ infiles = <<>>
    /\ deduplicate = FALSE /\ upper = FALSE
    /\ strip = FALSE /\ drop_desc = FALSE
    /\ mapfile \in SeqUpTo(MapLines, MaxMapLines)
    /\ \/ /\ format = "fasta"
          /\ column \in {"id", "description"}
          /\ header = FALSE
          /\ \E recs \in SeqUpTo(DecRecords, MaxDecItems) :
                outfile = SeqsStr(recs)
       \/ /\ format \in {"csv", "tsv"}
          /\ column \in {0, 1}
          /\ header \in BOOLEAN
          /\ \E rows \in SeqUpTo(DecRows, MaxDecItems) :
                outfile = [k \in 1..Len(rows) |-> CsvWrite(rows[k], SepOf(format))]

NextDecode == Decode \/ DecodeSeqs \/ DecodeXsv

SpecDecode == InitDecode /\ [][NextDecode]_vars

\* a run of either kind
InitAny == Init \/ InitDecode

SpecAny == InitAny /\ [][Next]_vars

(***************************************************************************)
(* What the properties speak about.                                        *)
(***************************************************************************)
\* the records of the FASTA input as the transform receives them
InputRecs ==
    LET results == ParseMany(infiles)
        good == SelectSeq(results, LAMBDA r : r.err = "none")
    IN [k \in 1..Len(good) |-> Preprocess(good[k].rec)]

\* the rows of the delimited input as Xsv.replace_ids receives them
InputRows ==
    LET rows == XsvRows(infiles, header, SepOf(format))
    IN [k \in 1..Len(rows) |-> rows[k].row]

\* the rows of the delimited text in f
RowsOf(f) ==
    [k \in 1..Len(f) |-> CsvRead(RStripChars(f[k], {CR, NL}), SepOf(format))]

\* 1 when the first row of the delimited stream is a header, else 0
HeaderRows == IF header THEN 1 ELSE 0

\* no element occurs twice in s
NoRepeat(s) == \A j, k \in 1..Len(s) : s[j] = s[k] => j = k

\* the index of the first element of s equal to s[k]
FirstIndex(s, k) == CHOOSE j \in 1..k :
    s[j] = s[k] /\ \A l \in 1..(j - 1) : s[l] # s[k]

\* the indices of s whose element occurs at no earlier index, in order
FirstOccurrences(s) ==
    SelectSeq([k \in 1..Len(s) |-> k], LAMBDA k : FirstIndex(s, k) = k)

IsFastaIdReplace == format = "fasta" /\ ~deduplicate /\ column = "id"
IsFastaIdDedup == format = "fasta" /\ deduplicate /\ column = "id"
IsXsv == format \in {"csv", "tsv"}

(***************************************************************************)
(* C1: replace mode on the FASTA id field never fails on an input in which *)
(* an id repeats: every record with the same original id is emitted with   *)
(* the same new id and the generator is called once per original id.       *)
(***************************************************************************)
C1_ReplaceIdStable ==
    IsFastaIdReplace =>
        /\ err # "AttributeError"
        /\ Len(hist_out) = Len(hist_map)
        /\ \A j, k \in 1..Len(hist_map) :
              hist_map[j][2] = hist_map[k][2] => hist_out[j].id = hist_out[k].id
        /\ NoRepeat(hist_calls)

(***************************************************************************)
(* C2: replace mode on delimited rows: two emitted non-header rows carry   *)
(* the same new value in the column iff they carried the same original     *)
(* value, and the generator is called once per distinct original value, in *)
(* order of first occurrence.                                              *)
(***************************************************************************)
C2_XsvReplaceStable ==
    (IsXsv /\ infiles # <<>>) =>
        LET out == RowsOf(outfile)
            n == Len(out)
            data == (HeaderRows + 1)..n
            olds == [k \in 1..(IF n > HeaderRows THEN n - HeaderRows ELSE 0) |->
                        InputRows[HeaderRows + k][column + 1]]
            firsts == FirstOccurrences(olds)
        IN /\ \A j, k \in data :
                 (out[j][column + 1] = out[k][column + 1])
                    <=> (InputRows[j][column + 1] = InputRows[k][column + 1])
           /\ hist_calls = [m \in 1..Len(firsts) |-> olds[firsts[m]]]
           /\ id_conv = Len(firsts)

\* three data rows were emitted, the first and third with one original
\* value and the second with another
C2_Witness ==
    /\ IsXsv /\ infiles # <<>>
    /\ Len(outfile) = HeaderRows + 3
    /\ InputRows[HeaderRows + 1][column + 1] = InputRows[HeaderRows + 3][column + 1]
    /\ InputRows[HeaderRows + 1][column + 1] # InputRows[HeaderRows + 2][column + 1]

(***************************************************************************)
(* C3: deduplicate mode on the FASTA id: a record is emitted iff it is the *)
(* first with its checksum; every input record appends one id-map entry    *)
(* (new_id, old_id, checksum, old_desc) in input order, and the entry of a *)
(* dropped duplicate carries the new id of the first record with that      *)
(* checksum.                                                               *)
(***************************************************************************)
C3_DedupFirstOnly ==
    (IsFastaIdDedup /\ pc \in {"encode_seqs", "decode"}) =>
        LET sums == [k \in 1..pos |-> Checksum(InputRecs[k].seq)]
            firsts == FirstOccurrences(sums)
        IN /\ Len(hist_map) = pos
           /\ Len(hist_out) = Len(firsts)
           /\ \A m \in 1..Len(firsts) :
                 /\ hist_out[m].seq = InputRecs[firsts[m]].seq
                 /\ hist_out[m].desc = InputRecs[firsts[m]].desc
                 /\ hist_out[m].id = hist_map[firsts[m]][1]
           /\ \A j, k \in 1..Len(hist_out) :
                 Checksum(hist_out[j].seq) = Checksum(hist_out[k].seq) => j = k
           /\ \A k \in 1..pos :
                 /\ hist_map[k][1] = hist_map[FirstIndex(sums, k)][1]
                 /\ hist_map[k][2] = InputRecs[k].id
                 /\ hist_map[k][3] = sums[k]
                 /\ hist_map[k][4] = InputRecs[k].desc
           /\ \A j, k \in 1..Len(firsts) :
                 hist_map[firsts[j]][1] = hist_map[firsts[k]][1] => j = k

\* a duplicate was dropped after a record with another checksum was emitted
C3_Witness ==
    /\ IsFastaIdDedup
    /\ pc = "decode"
    /\ pos = 3
    /\ Len(hist_out) = 2
    /\ hist_map[3][1] = hist_map[1][1]
    /\ hist_map[2][1] # hist_map[1][1]

(***************************************************************************)
(* C4: dedup round trip with fan-out: when the ids of the input are        *)
(* pairwise distinct, decoding the deduplicated output with the mapping    *)
(* file the encode wrote yields one record per input record, and the ids   *)
(* of the decoded records are the original ids.                            *)
(***************************************************************************)
DecodedRecs ==
    LET results == ParseMany(<<decoded>>)
    IN [k \in 1..Len(results) |-> results[k].rec]

InputIds == [k \in 1..Len(InputRecs) |-> InputRecs[k].id]

C4_DedupRoundTrip ==
    (IsFastaIdDedup /\ infiles # <<>> /\ pc = "done" /\ NoRepeat(InputIds)) =>
        /\ \A k \in 1..Len(ParseMany(<<decoded>>)) :
              ParseMany(<<decoded>>)[k].err = "none"
        /\ Len(DecodedRecs) = Len(InputRecs)
        /\ {DecodedRecs[k].id : k \in 1..Len(DecodedRecs)} = Range(InputIds)

\* three records with distinct ids, two of one content, were encoded to two
\* records and decoded
C4_Witness ==
    /\ IsFastaIdDedup /\ infiles # <<>> /\ pc = "done"
    /\ NoRepeat(InputIds)
    /\ Len(InputRecs) = 3
    /\ Len(hist_out) = 2

(***************************************************************************)
(* C5: replace round trip on delimited rows: when every row has the        *)
(* configured column, encode_xsv followed by decode_xsv with the mapping   *)
(* file of the encode ends without error and yields the original rows.     *)
(***************************************************************************)
AllRowsHaveColumn == \A k \in 1..Len(InputRows) : Len(InputRows[k]) >= column + 1

C5_XsvRoundTrip ==
    (IsXsv /\ infiles # <<>> /\ AllRowsHaveColumn) =>
        /\ err = "none"
        /\ pc = "done" => RowsOf(decoded) = InputRows

(***************************************************************************)
(* C6: replace round trip on the FASTA id: encode_seqs in replace mode     *)
(* followed by decode_seqs with the mapping file of the encode ends        *)
(* without error and yields the original records, ids repeated or not.     *)
(***************************************************************************)
C6_FastaRoundTrip ==
    (IsFastaIdReplace /\ infiles # <<>> /\ ~upper /\ ~strip /\ ~drop_desc
       /\ Len(InputRecs) >= 1) =>
        /\ err = "none"
        /\ pc = "done" => DecodedRecs = InputRecs

(***************************************************************************)
(* C7: encode performs the rename for the gff3 format as it does for fasta *)
(* and csv/tsv, and does not end in an error.                              *)
(***************************************************************************)
C7_EncodeGff ==
    (format = "gff3" /\ column \in {"id", "name", "seqid"}) => pc # "error"

(***************************************************************************)
(* C8: column bounds: in encode_xsv and in decode_xsv the first non-header *)
(* row without a field at the configured column ends the run with          *)
(* XsvColumnNumberError, whose message holds the fields of that row joined *)
(* by the separator; the rows before it have been emitted in order, the    *)
(* failing row and the rows after it are never emitted, and no id-map      *)
(* entry is appended for the failing row.                                  *)
(***************************************************************************)
\* the rows the running loop reads
StreamRows ==
    IF pc = "encode_xsv" THEN XsvRows(infiles, header, SepOf(format))
    ELSE XsvRows(<<outfile>>, header, SepOf(format))

\* what the running loop has written
Written == IF pc = "encode_xsv" THEN outfile ELSE decoded

\* row k of the stream is a data row without the configured column
ShortRow(k) ==
    /\ StreamRows[k].err = "none"
    /\ ~(header /\ k = 1)
    /\ Len(StreamRows[k].row) < column + 1

\* row a was emitted as line b: every field but the configured one is kept
EmittedAs(a, b) ==
    /\ Len(a) = Len(b)
    /\ \A f \in 1..Len(a) : f # column + 1 => a[f] = b[f]

C8_ColumnBounds ==
    [][(IsXsv /\ pc \in {"encode_xsv", "decode_xsv"}) =>
        /\ \A k \in 1..pos : ~ShortRow(k)
        /\ (pos < Len(StreamRows) /\ ShortRow(pos + 1)) =>
              /\ pc' = "error"
              /\ err' = "XsvColumnNumberError"
              /\ errmsg' = Join(StreamRows[pos + 1].row, SepOf(format))
              /\ Len(Written) = pos
              /\ \A k \in 1..pos :
                    EmittedAs(StreamRows[k].row, RowsOf(Written)[k])
              /\ UNCHANGED <<outfile, decoded, mapfile, id_map, hist_map,
                             id_conv>>
        /\ err' = "XsvColumnNumberError" =>
              (pos < Len(StreamRows) /\ ShortRow(pos + 1))
      ]_vars

\* encode_xsv emitted two rows and then met a row without the column
C8_Witness ==
    /\ IsXsv /\ infiles # <<>>
    /\ pc = "error" /\ err = "XsvColumnNumberError"
    /\ map_ = EmptyDict
    /\ Len(outfile) = 2
    /\ Len(InputRows) = 3

(***************************************************************************)
(* C9: ambiguity detection: decoding a delimited column never writes a     *)
(* substituted row for a key that has more than one candidate in the       *)
(* mapping table; get_from_map_single fails instead.                       *)
(***************************************************************************)
C9_AmbiguityDetected ==
    (IsXsv /\ pc \in {"decode_xsv", "done"}) =>
        LET rows == XsvRows(<<outfile>>, header, SepOf(format))
        IN \A k \in (HeaderRows + 1)..Len(decoded) :
              Len(Get(map_, rows[k].row[column + 1], <<>>)) <= 1

(***************************************************************************)
(* C10: missing key on FASTA decode: a record whose lookup key is absent   *)
(* from the table ends the run in MapFileKeyError, so a decode that        *)
(* completes has emitted at least one record for every input record.       *)
(***************************************************************************)
C10_MissingKeyFails ==
    (format = "fasta" /\ pc = "done") =>
        /\ Len(hist_dec) = Len(ParseMany(<<outfile>>))
        /\ \A k \in 1..Len(hist_dec) : Len(hist_dec[k]) >= 1

(***************************************************************************)
(* C11: field selection on FASTA: with the target 'description' (the value *)
(* check_column returns) every emitted record has its description replaced *)
(* by the generated id and its id left unchanged, and each id-map entry is *)
(* (new_description, old_description, ..., old_id).                        *)
(***************************************************************************)
C11_DescriptionTarget ==
    (format = "fasta" /\ column = "description" /\ infiles # <<>>) =>
        \A k \in 1..Len(hist_out) :
            LET n == IF deduplicate
                     THEN FirstOccurrences(
                            [j \in 1..pos |-> Checksum(InputRecs[j].seq)])[k]
                     ELSE k
                e == hist_map[n]
            IN /\ hist_out[k].id = InputRecs[n].id
               /\ hist_out[k].desc = e[1]
               /\ e[2] = InputRecs[n].desc
               /\ e[Len(e)] = InputRecs[n].id

\* the tab-separated fields of a line of the mapping file
MapFields(line) == Split(RStripChars(line, {CR, NL}), TAB)

\* the lines of a mapping file that have fewer than two fields
BadMapLines(f) == {k \in 1..Len(f) : Len(MapFields(f[k])) < 2}

RECURSIVE MapTable(_)
\* every key with the second fields of its lines, in file order
MapTable(f) ==
    IF Len(f) = 0 THEN EmptyDict
    ELSE LET n == Len(f)
             m == MapTable(SubSeq(f, 1, n - 1))
             fs == MapFields(f[n])
         IN Put(m, fs[1], Append(Get(m, fs[1], <<>>), fs[2]))

(***************************************************************************)
(* C12: parse_map_file fails with MapFileParseError, naming the 1-based    *)
(* number and the text of the first line with fewer than two tab-separated *)
(* fields, and returns no table then; when every line has two fields it    *)
(* returns the table of each key's second-column values in file order.     *)
(***************************************************************************)
C12_ParseMapFile ==
    LET bad == BadMapLines(mapfile) IN
    /\ err = "MapFileParseError" =>
          /\ bad # {}
          /\ LET k == CHOOSE x \in bad : \A y \in bad : x <= y
             IN errmsg = <<k, mapfile[k]>>
          /\ map_ = EmptyDict
    /\ (pc \in {"decode_seqs", "decode_xsv"} /\ pos = 0) =>
          /\ bad = {}
          /\ map_ = MapTable(mapfile)

(***************************************************************************)
(* An encode run, and the decode run after it, on FASTA files given line   *)
(* by line: one or two files of header, body and comment lines in any      *)
(* order, the empty file included.                                         *)
(***************************************************************************)
MaxParseLines == 3

FastaLines == {<<GT, "x", NL>>, <<"A", NL>>, <<fasta_comment, "c", NL>>}

FastaFiles == SeqUpTo(FastaLines, MaxParseLines)

InitParse ==
    /\ pc = "encode"
    /\ outfile = <<>> /\ mapfile = <<>>
    /\ Fresh
    /\ format = "fasta"
    /\ column = "id"
    /\ header = FALSE
    /\ deduplicate \in BOOLEAN
    /\ upper = FALSE /\ strip = FALSE /\ drop_desc = FALSE
    /\ \E f, g \in FastaFiles : infiles \in {<<f>>, <<f, g>>}

NextParse == Encode \/ EncodeSeqs \/ Decode \/ DecodeSeqs

SpecParse == InitParse /\ [][NextParse]_vars

(***************************************************************************)
(* C15: a FASTA input stream without lines yields zero records and raises  *)
(* no error: parse_many over files of which some are empty yields what it  *)
(* yields over the others, and a run on empty files only, once it has      *)
(* asked for the first record, goes on to end normally with empty output   *)
(* and an empty mapping file.                                              *)
(***************************************************************************)
C15_EmptyFasta ==
    (format = "fasta" /\ pc # "encode" /\ ~(pc = "encode_seqs" /\ pos = 0)) =>
        /\ ParseMany(infiles)
             = ParseMany(SelectSeq(infiles, LAMBDA f : f # <<>>))
        /\ (\A k \in 1..Len(infiles) : infiles[k] = <<>>) =>
              /\ pc # "error" /\ err = "none"
              /\ outfile = <<>> /\ mapfile = <<>> /\ decoded = <<>>

\* a line that is neither a header nor a comment comes before the first
\* header of the file
BodyBeforeHeader(f) ==
    \E k \in 1..Len(f) :
        /\ ~StartsWith(f[k], GT) /\ ~StartsWith(f[k], fasta_comment)
        /\ \A j \in 1..(k - 1) : ~StartsWith(f[j], GT)

(***************************************************************************)
(* C16: when a body line comes before the first '>' line of the input, the *)
(* parse fails with ValueError, whether a header follows or not: once the  *)
(* first record has been asked for, the run has ended in that error, and   *)
(* no record has been emitted.                                             *)
(***************************************************************************)
C16_BodyBeforeHeader ==
    (/\ format = "fasta" /\ infiles # <<>>
     /\ BodyBeforeHeader(infiles[1])
     /\ pc # "encode" /\ ~(pc = "encode_seqs" /\ pos = 0)) =>
        /\ pc = "error" /\ err = "ValueError"
        /\ hist_out = <<>>

(***************************************************************************)
(* An encode run on one or two delimited files, the empty file included.   *)
(***************************************************************************)
MaxJoinLines == 2

JoinLines(sep) == {<<"h", NL>>, <<"a", NL>>, <<"a", sep, "b", NL>>,
                   <<xsv_comment, "a", NL>>}

InitJoin ==
    /\ pc = "encode"
    /\ outfile = <<>> /\ mapfile = <<>>
    /\ Fresh
    /\ format \in {"csv", "tsv"}
    /\ column = 0
    /\ header \in BOOLEAN
    /\ deduplicate = FALSE /\ upper = FALSE
    /\ strip = FALSE /\ drop_desc = FALSE
    /\ \E f, g \in SeqUpTo(JoinLines(SepOf(format)), MaxJoinLines) :
          infiles \in {<<f>>, <<f, g>>}

NextJoin == Encode \/ EncodeXsv

SpecJoin == InitJoin /\ [][NextJoin]_vars

RECURSIVE HeaderJoined(_, _)
\* the lines of the files in argument order, without the first line of
\* every file but the first
HeaderJoined(files, first) ==
    IF Len(files) = 0 THEN <<>>
    ELSE (IF first \/ Len(files[1]) = 0 THEN files[1] ELSE Tail(files[1]))
         \o HeaderJoined(Tail(files), FALSE)

\* the rows of those lines, comment lines left out
HeaderJoinedRows ==
    LET lines == HeaderJoined(infiles, TRUE)
        text == [k \in 1..Len(lines) |-> RStripChars(lines[k], {CR, NL})]
        kept == SelectSeq(text, LAMBDA l : ~StartsWith(l, xsv_comment))
    IN [k \in 1..Len(kept) |-> CsvRead(kept[k], SepOf(format))]

(***************************************************************************)
(* C14: with the header flag, for every list of delimited files the rows   *)
(* encode emits are the rows of the first file followed by those of every  *)
(* later file without its first line; the first row is emitted unchanged,  *)
(* calls no id generator and adds no id-map entry, every other row has its *)
(* column replaced, and the run reads the input to its end.                *)
(***************************************************************************)
C14_HeaderConcat ==
    (IsXsv /\ header) =>
        LET exp == HeaderJoinedRows
            n == Len(hist_out)
        IN /\ err # "RuntimeError"
           /\ n <= Len(exp)
           /\ n > 0 => /\ hist_out[1] = exp[1]
                       /\ Len(hist_map) = n - 1
                       /\ Len(hist_calls) <= n - 1
           /\ \A k \in 2..n :
                 hist_out[k] = [exp[k] EXCEPT ![column + 1] = hist_map[k - 1][1]]
           /\ pc = "decode" => n = Len(exp)

\* the fields of an id-map entry as flush_ids writes them
EntryFields(entry) ==
    [k \in 1..Len(entry) |-> IF entry[k] = None THEN <<DOT>> ELSE entry[k]]

\* the mapping file holds the lines of the entries appended so far, in
\* order, but for those still in the buffer, which are the newest ones
MapFileComplete ==
    /\ Len(mapfile) + Len(id_map) = Len(hist_map)
    /\ \A k \in 1..Len(mapfile) :
          /\ mapfile[k][Len(mapfile[k])] = NL
          /\ MapFields(mapfile[k]) = EntryFields(hist_map[k])
    /\ \A k \in 1..Len(id_map) : id_map[k] = hist_map[Len(mapfile) + k]
    /\ pc \in {"decode", "decode_seqs", "decode_xsv", "done"} => id_map = <<>>

(***************************************************************************)
(* C17: when encode_seqs or encode_xsv completes, the mapping file has     *)
(* exactly one line for every id-map entry appended during the run, in the *)
(* order of appending, none lost and none written twice, wherever the      *)
(* flushes fall; every flush leaves the buffer empty, and a flush of an    *)
(* empty buffer writes nothing.                                            *)
(***************************************************************************)
C17_MapFileComplete ==
    [][/\ MapFileComplete /\ MapFileComplete'
       /\ mapfile' # mapfile => id_map' = <<>>
       /\ (id_map = <<>> /\ hist_map' = hist_map) => mapfile' = mapfile]_vars

\* an encode run has completed whose loop passed an iteration without a
\* flush, leaving entries in the buffer for a later one
C17_Witness ==
    /\ pc = "decode"
    /\ i >= FlushInterval
    /\ Len(hist_map) > FlushInterval
    /\ Len(mapfile) = Len(hist_map)

(***************************************************************************)
(* An encode run on FASTA inputs long enough to pass the flush interval    *)
(* with records left over, among them runs of records of one sequence.     *)
(***************************************************************************)
FlushRecords == {MkSeq(id, None, <<"A">>) : id \in SeqIds}

InitFlush ==
    /\ pc = "encode"
    /\ outfile = <<>> /\ mapfile = <<>>
    /\ Fresh
    /\ format = "fasta"
    /\ column = "id"
    /\ header = FALSE
    /\ deduplicate \in BOOLEAN
    /\ upper = FALSE /\ strip = FALSE /\ drop_desc = FALSE
    /\ \E recs \in SeqUpTo(FlushRecords, FlushInterval + 2) :
          infiles = <<SeqsStr(recs)>>

NextFlush == Encode \/ EncodeSeqs

SpecFlush == InitFlush /\ [][NextFlush]_vars

(***************************************************************************)
(* C18: at every point of an encode run, in replace mode and in            *)
(* deduplicate mode, the id-map buffer holds at most as many entries as    *)
(* the flush interval, however many consecutive duplicates the input has.  *)
(***************************************************************************)
C18_BufferBounded == Len(id_map) <= FlushInterval

(***************************************************************************)
(* decode.py on GFF3.  GFFRecord is the codec of gffpal: a feature line is *)
(* held as the record GFFRecord.parse makes of it, with its seqid and the  *)
(* attributes ID, Name and Parent, and str() of a record is held as the    *)
(* record.  A comment line is held as its text.                            *)
(***************************************************************************)
GffFeature(seqid, id, name, parent) ==
    [kind |-> "feature", text |-> <<>>, seqid |-> seqid, id |-> id,
     name |-> name, parent |-> parent]

GffComment(text) ==
    [kind |-> "comment", text |-> text, seqid |-> <<>>, id |-> None,
     name |-> None, parent |-> <<>>]

\* the line separator "\n" in the text written
GffNewline ==
    [kind |-> "nl", text |-> <<NL>>, seqid |-> <<>>, id |-> None,
     name |-> None, parent |-> <<>>]

RECURSIVE JoinNewline(_)
\* "\n".join(record_chunk)
JoinNewline(record_chunk) ==
    IF Len(record_chunk) = 0 THEN <<>>
    ELSE IF Len(record_chunk) = 1 THEN record_chunk
    ELSE <<record_chunk[1], GffNewline>> \o JoinNewline(Tail(record_chunk))

RECURSIVE ReplaceParents(_, _)
\* the loop of replace_gff_id over old_parents
ReplaceParents(old_parents, m) ==
    IF Len(old_parents) = 0 THEN [err |-> "none", val |-> <<>>, map |-> m]
    ELSE LET g == get_from_map_single(m, old_parents[1]) IN
         IF g.err # "none" THEN [err |-> g.err, val |-> <<>>, map |-> g.map]
         ELSE LET rest == ReplaceParents(Tail(old_parents), g.map) IN
              IF rest.err # "none" THEN rest
              ELSE [err |-> "none", val |-> <<g.val>> \o rest.val,
                    map |-> rest.map]

\* replace_gff_id leaving the parents as they are
replace_gff_id_noparent(record, m) ==
    IF record.id = None THEN [err |-> "none", rec |-> record, map |-> m]
    ELSE LET g == get_from_map_single(m, record.id) IN
         IF g.err # "none" THEN [err |-> g.err, rec |-> record, map |-> g.map]
         ELSE [err |-> "none", rec |-> [record EXCEPT !.id = g.val],
               map |-> g.map]

\* replace_gff_id
replace_gff_id(record, m) ==
    LET g == IF record.id = None
             THEN [err |-> "none", val |-> None, map |-> m]
             ELSE get_from_map_single(m, record.id)
    IN IF g.err # "none" THEN [err |-> g.err, rec |-> record, map |-> g.map]
       ELSE LET p == ReplaceParents(record.parent, g.map) IN
            IF p.err # "none"
            THEN [err |-> p.err, rec |-> record, map |-> p.map]
            ELSE [err |-> "none",
                  rec |-> [record EXCEPT !.id = g.val, !.parent = p.val],
                  map |-> p.map]

\* replace_gff_name
replace_gff_name(record, m) ==
    IF record.name = None THEN [err |-> "none", rec |-> record, map |-> m]
    ELSE LET g == get_from_map_single(m, record.name) IN
         IF g.err # "none" THEN [err |-> g.err, rec |-> record, map |-> g.map]
         ELSE [err |-> "none", rec |-> [record EXCEPT !.name = g.val],
               map |-> g.map]

\* replace_gff_seqid
replace_gff_seqid(record, m) ==
    LET g == get_from_map_single(m, record.seqid) IN
    IF g.err # "none" THEN [err |-> g.err, rec |-> record, map |-> g.map]
    ELSE [err |-> "none", rec |-> [record EXCEPT !.seqid = g.val],
          map |-> g.map]

\* decode_gff: the function chosen for the column
trans_function(record, m) ==
    IF column = "id" THEN replace_gff_id(record, m)
    ELSE IF column = "name" THEN replace_gff_name(record, m)
    ELSE replace_gff_seqid(record, m)

\* decode_gff: one iteration of its loop, on the line of index pos; after
\* the last line, the closing write
DecodeGff ==
    /\ pc = "decode_gff"
    /\ IF pos = Len(outfile)
       THEN /\ decoded' = decoded \o JoinNewline(chunk)
            /\ pc' = "done"
            /\ UNCHANGED <<pos, i, chunk, map_, hist_dec, err, errmsg>>
       ELSE LET line == outfile[pos + 1] IN
            IF line.kind = "comment"
            THEN LET c == GffComment(Strip(RStripChars(line.text, {CR, NL})))
                 IN /\ chunk' = Append(chunk, c)
                    /\ hist_dec' = Append(hist_dec, <<c>>)
                    /\ pos' = pos + 1
                    /\ i' = pos
                    /\ UNCHANGED <<pc, err, errmsg, map_, decoded>>
            ELSE LET t == trans_function(line, map_) IN
                 IF t.err # "none"
                 THEN /\ Raise(t.err, <<>>)
                      /\ map_' = t.map
                      /\ UNCHANGED <<pos, i, chunk, decoded, hist_dec>>
                 ELSE /\ hist_dec' = Append(hist_dec, <<t.rec>>)
                      /\ map_' = t.map
                      /\ pos' = pos + 1
                      /\ i' = pos
                      /\ IF pos % FlushInterval = 0
                         THEN /\ decoded' = decoded
                                              \o JoinNewline(Append(chunk, t.rec))
                              /\ chunk' = <<>>
                         ELSE /\ chunk' = Append(chunk, t.rec)
                              /\ UNCHANGED decoded
                      /\ UNCHANGED <<pc, err, errmsg>>
    /\ UNCHANGED <<config, encstate, hist>>

(***************************************************************************)
(* A decode run on a GFF3 input and a mapping file.                        *)
(***************************************************************************)
MaxGffLines == 2

GffKeys == {NextId(0), NextId(1)}

GffMapLines == {NextId(0) \o <<TAB, "x", NL>>, NextId(0) \o <<TAB, "y", NL>>,
                NextId(1) \o <<TAB, "y", NL>>}

\* feature lines with and without ID, with no, one and two parents, and
\* comment lines
GffLines ==
    {GffFeature(NextId(0), id, IF p = <<>> THEN None ELSE NextId(1), p) :
        id \in {None, NextId(0)},
        p \in {<<>>, <<NextId(0)>>, <<NextId(1), NextId(0)>>}}
    \cup {GffComment(<<"#", "c", NL>>), GffComment(<<"#", "c", SP, NL>>)}

InitGffDecode ==
    /\ pc = "decode"
    /\ Fresh
    /\ infiles = <<>>
    /\ format = "gff3"
    /\ column \in {"id", "name", "seqid"}
    /\ header = FALSE
    /\ deduplicate = FALSE /\ upper = FALSE
    /\ strip = FALSE /\ drop_desc = FALSE
    /\ mapfile \in SeqUpTo(GffMapLines, MaxMapLines)
    /\ outfile \in SeqUpTo(GffLines, MaxGffLines)

NextGff == Decode \/ DecodeGff

SpecGff == InitGffDecode /\ [][NextGff]_vars

\* the mapping table has a candidate for the key
HasKey(k) == k \in DOMAIN map_ /\ Len(map_[k]) > 0

(***************************************************************************)
(* C13: decode_gff on the column 'id': for every feature record the ID,    *)
(* when present, is replaced by its mapped value and every parent by its   *)
(* own mapped value, number and order of the parents kept; a record        *)
(* without ID stays without; when the ID or a parent has no entry in the   *)
(* table the step fails with MapFileKeyError and writes no record.         *)
(***************************************************************************)
C13_ReplaceGffId ==
    [][(/\ pc = "decode_gff" /\ column = "id" /\ pos < Len(outfile)
        /\ outfile[pos + 1].kind = "feature") =>
         LET r == outfile[pos + 1]
             keys == (IF r.id = None THEN <<>> ELSE <<r.id>>) \o r.parent
         IN IF \A j \in 1..Len(keys) : HasKey(keys[j])
            THEN /\ pc' = "decode_gff" /\ err' = "none"
                 /\ Len(hist_dec') = Len(hist_dec) + 1
                 /\ LET w == hist_dec'[Len(hist_dec')][1] IN
                    /\ w.id = IF r.id = None THEN None ELSE map_[r.id][1]
                    /\ Len(w.parent) = Len(r.parent)
                    /\ \A j \in 1..Len(r.parent) :
                          w.parent[j] = map_[r.parent[j]][1]
                    /\ w.seqid = r.seqid /\ w.name = r.name
                    /\ \/ chunk' = Append(chunk, w) /\ decoded' = decoded
                       \/ /\ chunk' = <<>>
                          /\ Len(decoded') > Len(decoded)
                          /\ decoded'[Len(decoded')] = w
            ELSE /\ pc' = "error" /\ err' = "MapFileKeyError"
                 /\ decoded' = decoded /\ chunk' = chunk
                 /\ hist_dec' = hist_dec]_vars

\* a feature with an ID and two different parents has been written with
\* all three replaced
C13_Witness ==
    /\ pc = "decode_gff" /\ column = "id"
    /\ \E k \in 1..Len(hist_dec) :
          LET r == outfile[k]
              w == hist_dec[k][1]
          IN /\ r.kind = "feature" /\ r.id # None /\ w.id # r.id
             /\ Len(r.parent) = 2 /\ r.parent[1] # r.parent[2]
             /\ w.parent[1] # w.parent[2]
             /\ w.parent[1] # r.parent[1]

\* the output line for the input line k: a comment as it was, without its
\* line end; a feature as re-serialized after the substitution
GffExpected(k) ==
    IF outfile[k].kind = "comment"
    THEN GffComment(RStripChars(outfile[k].text, {CR, NL}))
    ELSE hist_dec[k][1]

(***************************************************************************)
(* C19: the output of decode_gff has one line per input line, in order,    *)
(* comment lines echoed as they were and every other line re-serialized    *)
(* after the substitution, and every two consecutive output lines are      *)
(* separated by a newline, wherever the chunk flushes fall.                *)
(***************************************************************************)
C19_GffOutputLines ==
    (format = "gff3" /\ pc = "done") =>
        decoded = JoinNewline([k \in 1..Len(outfile) |-> GffExpected(k)])

====
